---- MODULE Spec2Model ----
(***************************************************************************)
(* Model of src/lib/generate-embeddings.ts (markprompt): the section       *)
(* splitter splitTreeBy, the budget sub-splitter splitWithinTokenCutoff,   *)
(* processFile and the embedding / persistence flow of                     *)
(* generateFileEmbeddings against the relational store (files,             *)
(* file_sections), the embedding provider and the usage counter.           *)
(*                                                                         *)
(* Strings are sequences of characters; "\n" is the newline.  A tree is    *)
(* the sequence of its top-level children; a node is a record with its     *)
(* document position and its type.                                         *)
(***************************************************************************)
EXTENDS Integers, Sequences, FiniteSets, TLC

VARIABLES
    \* ---- splitTreeBy (the reduce over tree.children) ----
    tree,                 \* tree.children, the input
    trees,                \* the accumulator of the reduce
    nodeIdx,              \* number of children already reduced
    \* ---- splitWithinTokenCutoff ----
    cutSection,           \* section, the input
    cutPieces,            \* the list returned
    cutPath,              \* the return statement taken: "whole" or "lines"
    \* ---- the stores shared by all invocations ----
    fileExists,           \* a row of `files` exists for (projectId, path)
    fileMeta,             \* its meta column
    rows,                 \* rows of `file_sections` for that file, in insertion order
    counter,              \* the monthly token count key in redis
    \* ---- one invocation of generateFileEmbeddings ----
    inv,                  \* number of the invocation (sequential invocations)
    pc,                   \* position of the invocation
    fileType,             \* getFileType(file.name), until the invocation moves on
    parsersRun,           \* parsers processFile went through, in order (same lifetime)
    meta,                 \* meta of processFile
    sections,             \* sections of processFile (the chunks)
    fileId,
    secIdx,               \* index of the section the for loop is at
    attempts,             \* attempts backOff has made for the current section
    embeddingsTokenCount,
    errors,
    embeddingsData,
    dataIdx,              \* index of the record the fallback loop is at
    result,               \* what the invocation returned to its caller
    lastCall,             \* the provider call made by the last step, if it made one
    writes,               \* history of the invocation: its store operations, in order
    \* ---- concurrent invocations of generateFileEmbeddings ----
    procs                 \* the locals of each invocation, and its position

splitVars == <<tree, trees, nodeIdx>>
cutVars == <<cutSection, cutPieces, cutPath>>
storeVars == <<fileExists, fileMeta, rows, counter>>
invVars == <<inv, pc, fileType, parsersRun, meta, sections, fileId, secIdx, attempts,
             embeddingsTokenCount, errors, embeddingsData, dataIdx, result, lastCall,
             writes>>
vars == <<tree, trees, nodeIdx, cutSection, cutPieces, cutPath, fileExists, fileMeta, rows, counter,
          inv, pc, fileType, parsersRun, meta, sections, fileId, secIdx, attempts,
          embeddingsTokenCount, errors, embeddingsData, dataIdx, result, lastCall,
          writes, procs>>

----------------------------------------------------------------------------
(* Bounds of the model *)

MaxNodes == 5            \* top-level children of a tree
MaxSections == 1         \* sections the parsers return for one file
MaxInvocations == 2      \* sequential invocations for the same path
MaxConcSections == 1     \* sections of each of the concurrent invocations
MaxStrLen == 9           \* characters of a section given to splitWithinTokenCutoff
\* Stand-ins for the imported constants of '@/lib/constants' (their values
\* are not part of the file): scaled to the string lengths of the model.
MIN_CONTENT_LENGTH == 2
CONTEXT_TOKENS_CUTOFF == 1

(* Program constants *)
NumOfAttempts == 10      \* backOff option numOfAttempts

----------------------------------------------------------------------------
(* Helpers on sequences *)

NL == "\n"
Null == "null"

RECURSIVE Rep(_)
Rep(n) == IF n <= 0 THEN <<>> ELSE <<"a">> \o Rep(n - 1)

RECURSIVE Flatten(_)
Flatten(ss) == IF ss = <<>> THEN <<>> ELSE Head(ss) \o Flatten(Tail(ss))

RECURSIVE SumSeq(_)
SumSeq(s) == IF s = <<>> THEN 0 ELSE Head(s) + SumSeq(Tail(s))

SeqsUpTo(S, n) == UNION {[1..k -> S] : k \in 0..n}

SelectIdx(s, P(_)) == {i \in 1..Len(s) : P(s[i])}

----------------------------------------------------------------------------
(* splitTreeBy *)

NodeTypes == {"heading", "paragraph"}

\* the predicate splitMarkdownIntoSections passes to splitTreeBy
IsHeading(node) == node.type = "heading"

\* children with their document positions
MkTree(types) == [i \in 1..Len(types) |-> [pos |-> i, type |-> types[i]]]

Trees == {MkTree(t) : t \in SeqsUpTo(NodeTypes, MaxNodes)}

\* mutant: a heading only starts a new tree when the last tree has a body
SplitReducerJoinsHeadings(ts, node) ==
    IF ts = <<>> \/ (IsHeading(node) /\ Len(ts[Len(ts)]) > 1)
    THEN Append(ts, <<node>>)
    ELSE [ts EXCEPT ![Len(ts)] = Append(@, node)]

\* mutant: a node that is not a heading is pushed onto the first tree
SplitReducerPushFirst(ts, node) ==
    IF ts = <<>> \/ IsHeading(node)
    THEN Append(ts, <<node>>)
    ELSE [ts EXCEPT ![1] = Append(@, node)]

\* mutant: the test of the predicate is negated
SplitReducerNegated(ts, node) ==
    IF ts = <<>> \/ ~IsHeading(node)
    THEN Append(ts, <<node>>)
    ELSE [ts EXCEPT ![Len(ts)] = Append(@, node)]

\* the callback of the reduce: const [lastTree] = trees.slice(-1); ...
SplitReducer(ts, node) ==
    IF ts = <<>> \/ IsHeading(node)
    THEN Append(ts, <<node>>)
    ELSE [ts EXCEPT ![Len(ts)] = Append(@, node)]

SplitInit ==
    /\ tree \in Trees
    /\ trees = <<>>
    /\ nodeIdx = 0

\* one iteration of tree.children.reduce
SplitStep ==
    /\ nodeIdx < Len(tree)
    /\ trees' = SplitReducer(trees, tree[nodeIdx + 1])
    /\ nodeIdx' = nodeIdx + 1
    /\ UNCHANGED tree

SplitDone == nodeIdx = Len(tree)

----------------------------------------------------------------------------
(* splitWithinTokenCutoff *)

\* variant: the length of the section is compared without the division by 4
UnderCutoffNoDiv(n) == 20 * n < 16 * CONTEXT_TOKENS_CUTOFF

\* n characters are under TOKEN_CUTOFF_ADJUSTED = CONTEXT_TOKENS_CUTOFF * 0.8
\* tokens:  n / 4 < CONTEXT_TOKENS_CUTOFF * 0.8  <=>  5 n < 16 CONTEXT_TOKENS_CUTOFF
UnderCutoff(n) == 5 * n < 16 * CONTEXT_TOKENS_CUTOFF

\* section.split('\n'): always at least one line, the newlines removed
RECURSIVE SplitLinesAcc(_, _, _)
SplitLinesAcc(s, cur, acc) ==
    IF s = <<>> THEN Append(acc, cur)
    ELSE IF Head(s) = NL THEN SplitLinesAcc(Tail(s), <<>>, Append(acc, cur))
    ELSE SplitLinesAcc(Tail(s), Append(cur, Head(s)), acc)

SplitLines(s) == SplitLinesAcc(s, <<>>, <<>>)

\* the for loop over lines; accChars is 4 * accTokenCounter
RECURSIVE CutoffLoop(_, _, _, _)
CutoffLoop(lines, subSections, accLines, accChars) ==
    IF lines = <<>>
    THEN IF accLines # <<>> THEN Append(subSections, accLines) ELSE subSections
    ELSE LET line == Head(lines) IN
         IF UnderCutoff(accChars + Len(line))
         THEN CutoffLoop(Tail(lines), subSections,
                         accLines \o <<NL>> \o line, accChars + Len(line))
         ELSE CutoffLoop(Tail(lines), Append(subSections, accLines), line, 0)

\* variant: the line that does not fit is not put in the new buffer
RECURSIVE CutoffLoopDropsLine(_, _, _, _)
CutoffLoopDropsLine(lines, subSections, accLines, accChars) ==
    IF lines = <<>>
    THEN IF accLines # <<>> THEN Append(subSections, accLines) ELSE subSections
    ELSE LET line == Head(lines) IN
         IF UnderCutoff(accChars + Len(line))
         THEN CutoffLoopDropsLine(Tail(lines), subSections,
                                  accLines \o <<NL>> \o line, accChars + Len(line))
         ELSE CutoffLoopDropsLine(Tail(lines), Append(subSections, accLines),
                                  <<>>, 0)

SplitWithinTokenCutoffDropsLine(section) ==
    IF UnderCutoff(Len(section))
    THEN <<section>>
    ELSE CutoffLoopDropsLine(SplitLines(section), <<>>, <<>>, 0)

\* variant: after a flush the count starts at the estimate of the line
\* that starts the new buffer
RECURSIVE CutoffLoopKeepsCount(_, _, _, _)
CutoffLoopKeepsCount(lines, subSections, accLines, accChars) ==
    IF lines = <<>>
    THEN IF accLines # <<>> THEN Append(subSections, accLines) ELSE subSections
    ELSE LET line == Head(lines) IN
         IF UnderCutoff(accChars + Len(line))
         THEN CutoffLoopKeepsCount(Tail(lines), subSections,
                                   accLines \o <<NL>> \o line, accChars + Len(line))
         ELSE CutoffLoopKeepsCount(Tail(lines), Append(subSections, accLines),
                                   line, Len(line))

SplitWithinTokenCutoffKeepsCount(section) ==
    IF UnderCutoff(Len(section))
    THEN <<section>>
    ELSE CutoffLoopKeepsCount(SplitLines(section), <<>>, <<>>, 0)

SplitWithinTokenCutoff(section) ==
    IF UnderCutoff(Len(section))
    THEN <<section>>
    ELSE CutoffLoop(SplitLines(section), <<>>, <<>>, 0)

Chars == {"a", NL}

Strings == SeqsUpTo(Chars, MaxStrLen)

CutInit ==
    /\ cutSection \in Strings
    /\ cutPieces = <<>>
    /\ cutPath = "none"

CutIdle ==
    /\ cutSection = <<>>
    /\ cutPieces = <<>>
    /\ cutPath = "none"

\* lines 132-134: the section is returned as it is
CutoffWhole ==
    /\ cutPath = "none"
    /\ UnderCutoff(Len(cutSection))
    /\ cutPieces' = SplitWithinTokenCutoff(cutSection)
    /\ cutPath' = "whole"
    /\ UNCHANGED cutSection

\* lines 136-158: the section is split at its newlines
CutoffLines ==
    /\ cutPath = "none"
    /\ ~UnderCutoff(Len(cutSection))
    /\ cutPieces' = SplitWithinTokenCutoff(cutSection)
    /\ cutPath' = "lines"
    /\ UNCHANGED cutSection

CutDone == cutPath # "none"

----------------------------------------------------------------------------
(* processFile *)

FileTypes == {"mdoc", "html", "md"}      \* getFileType(file.name); "md" is any other type

\* Sections as the parsers return them: one of at least MIN_CONTENT_LENGTH
\* characters holding a newline, one of two lines that is over the token
\* cutoff, and one whose first line makes a piece below MIN_CONTENT_LENGTH
\* and whose second line is over the token cutoff.
PlainSection == Rep(MIN_CONTENT_LENGTH - 1) \o <<NL, "a">>
CutChars == (16 * CONTEXT_TOKENS_CUTOFF) \div 5
LongSection == Rep(CutChars) \o <<NL>> \o Rep(CutChars)
LeadSection == Rep(MIN_CONTENT_LENGTH - 2) \o <<NL>> \o Rep(CutChars + 1)
SectionSet == {PlainSection, LongSection, LeadSection}
SectionLists == SeqsUpTo(SectionSet, MaxSections)

\* sections.reduce((acc, value) => [...acc, ...splitWithinTokenCutoff(value)], [])
TrimmedSections(secs) ==
    Flatten([i \in 1..Len(secs) |-> SplitWithinTokenCutoff(secs[i])])

\* A file as processFile sees it: its type and what each parser does on its
\* content.  A parser the type never reaches is left at "does not throw".
FileInputs ==
    {f \in [ft : FileTypes, mdxThrows : BOOLEAN, mdocThrows : BOOLEAN,
            htmlThrows : BOOLEAN] :
        /\ f.ft = "mdoc" => (~f.mdxThrows /\ ~f.htmlThrows)
        /\ f.ft = "html" => (~f.mdxThrows /\ ~f.mdocThrows)
        /\ f.ft = "md" => (~f.htmlThrows /\ (f.mdocThrows => f.mdxThrows))}

\* one parser processFile went through and whether it threw
Ran(parser, threw) == [parser |-> parser, threw |-> threw]

\* mutant: the flow-markup parse is not guarded by try/catch
ProcessFileNoFallback(ft, mdxThrows, mdocThrows, htmlThrows, secs) ==
    LET out(run, threw) ==
            [thrown |-> threw, parsersRun |-> run,
             sections |-> IF threw THEN <<>> ELSE TrimmedSections(secs)]
    IN  IF ft = "mdoc" THEN out(<<Ran("markdoc", mdocThrows)>>, mdocThrows)
        ELSE IF ft = "html" THEN out(<<Ran("html", htmlThrows)>>, htmlThrows)
        ELSE out(<<Ran("mdx", mdxThrows)>>, mdxThrows)

\* processFile: which parsers run, and whether it returns sections or throws.
\* mdxThrows, mdocThrows, htmlThrows: what each parser does on file.content;
\* secs: the sections the parser that succeeds returns.
ProcessFile(ft, mdxThrows, mdocThrows, htmlThrows, secs) ==
    LET out(run, threw) ==
            [thrown |-> threw, parsersRun |-> run,
             sections |-> IF threw THEN <<>> ELSE TrimmedSections(secs)]
    IN  IF ft = "mdoc" THEN out(<<Ran("markdoc", mdocThrows)>>, mdocThrows)
        ELSE IF ft = "html" THEN out(<<Ran("html", htmlThrows)>>, htmlThrows)
        ELSE IF ~mdxThrows THEN out(<<Ran("mdx", FALSE)>>, FALSE)
        ELSE out(<<Ran("mdx", TRUE), Ran("markdoc", mdocThrows)>>, mdocThrows)

----------------------------------------------------------------------------
(* generateFileEmbeddings *)

Path == "docs/a.md"          \* file.path
FileId == "file1"            \* id of the row of `files`
\* usage.total_tokens as the provider reports it; undefined counts as 0 (?? 0)
TokenReports == {0, 2}

\* extractFrontmatter(file.content) of the n-th invocation
Meta(n) == <<"meta", n>>
NoMeta == <<>>

\* how an invocation ended: it returned a list of errors, or it rejected
NoResult == [kind |-> "none", errors |-> <<>>]
Fault == [kind |-> "fault", errors |-> <<>>]
Returned(errs) == [kind |-> "returned", errors |-> errs]

\* section.replace(/\n/g, ' ')
Input(section) == [k \in 1..Len(section) |-> IF section[k] = NL THEN " " ELSE section[k]]

\* variant: the test of line 232 lets one character less through
QualifiesOffByOne(section) == ~(Len(Input(section)) < MIN_CONTENT_LENGTH - 1)

\* the negation of the test of line 232
Qualifies(section) == ~(Len(Input(section)) < MIN_CONTENT_LENGTH)

\* a provider call for section idx, the n-th for that section
Call(idx, ok, n) == [idx |-> idx, ok |-> ok, n |-> n]
NoCall == Call(0, FALSE, 0)

\* a store operation and whether the store carried it out
Write(op, idx, ok) == [op |-> op, idx |-> idx, ok |-> ok]

CreateError == [path |-> Path, kind |-> "create", snippet |-> <<>>, cause |-> Null]
StoreError == [path |-> Path, kind |-> "store", snippet |-> <<>>, cause |-> "insert"]
\* input.slice(0, 20) is the whole input at the string lengths of the model;
\* cause is the ${error} of the message: what backOff rejected with, or the
\* TypeError of line 252
EmbedError(input, cause) ==
    [path |-> Path, kind |-> "embed", snippet |-> input, cause |-> cause]

\* an element of embeddingsData; inv tells the invocation that made it
Record(input, tokens) ==
    [file_id |-> fileId, content |-> input, token_count |-> tokens, inv |-> inv]

\* where the for loop over sections goes from index i
LoopPc(i) == IF i > Len(sections) THEN "insert" ELSE "loop"

\* mutant: a fault of processFile is swallowed and the invocation goes on
AfterProcessFileSwallows(thrown) == "getFile"

\* line 200 is in no try block: a fault of processFile leaves
\* generateFileEmbeddings, which rejects
AfterProcessFile(thrown) == IF thrown THEN "thrown" ELSE "getFile"

InvInit ==
    /\ inv = 0 /\ pc = "idle"
    /\ fileType = Null /\ parsersRun = <<>> /\ meta = NoMeta /\ sections = <<>>
    /\ fileId = Null /\ secIdx = 1 /\ attempts = 0
    /\ embeddingsTokenCount = 0 /\ errors = <<>> /\ embeddingsData = <<>>
    /\ dataIdx = 1 /\ result = NoResult /\ lastCall = NoCall /\ writes = <<>>

StoreInit ==
    /\ fileExists = FALSE /\ fileMeta = NoMeta /\ rows = <<>> /\ counter = 0

Init ==
    /\ tree = <<>> /\ trees = <<>> /\ nodeIdx = 0
    /\ CutIdle
    /\ StoreInit
    /\ InvInit
    /\ procs = <<>>

\* lines 197-200: a new invocation; processFile returns or throws
Invoke(ft, mdxThrows, mdocThrows, htmlThrows, secs) ==
    /\ pc \in {"idle", "done", "thrown"}
    /\ inv < MaxInvocations
    /\ LET r == ProcessFile(ft, mdxThrows, mdocThrows, htmlThrows, secs) IN
        /\ inv' = inv + 1
        /\ embeddingsTokenCount' = 0
        /\ errors' = <<>>
        /\ fileType' = ft
        /\ parsersRun' = r.parsersRun
        /\ sections' = r.sections
        /\ meta' = IF r.thrown THEN NoMeta ELSE Meta(inv + 1)
        /\ pc' = AfterProcessFile(r.thrown)
        /\ result' = IF AfterProcessFile(r.thrown) = "thrown" THEN Fault ELSE NoResult
    /\ fileId' = Null /\ secIdx' = 1 /\ attempts' = 0
    /\ embeddingsData' = <<>> /\ dataIdx' = 1 /\ lastCall' = NoCall /\ writes' = <<>>
    /\ UNCHANGED <<splitVars, cutVars, procs, storeVars>>

\* line 202
GetFileAtPath ==
    /\ pc = "getFile"
    /\ fileId' = IF fileExists THEN FileId ELSE Null
    /\ pc' = IF fileExists THEN "delete" ELSE "create"
    /\ fileType' = Null
    /\ parsersRun' = <<>>
    /\ lastCall' = NoCall
    /\ UNCHANGED <<splitVars, cutVars, procs, storeVars, inv, meta, sections, secIdx,
                   attempts, embeddingsTokenCount, errors, embeddingsData, dataIdx,
                   result, writes>>

\* mutant: the rows of the earlier invocations are kept
DeleteSectionsKeepsRows ==
    /\ pc = "delete"
    /\ rows' = rows
    /\ writes' = Append(writes, Write("delete", 0, TRUE))
    /\ pc' = "update"
    /\ lastCall' = NoCall
    /\ UNCHANGED <<splitVars, cutVars, procs, fileExists, fileMeta, counter, inv, fileType, parsersRun,
                   meta, sections, fileId, secIdx, attempts, embeddingsTokenCount,
                   errors, embeddingsData, dataIdx, result>>

\* lines 206-209
DeleteSections ==
    /\ pc = "delete"
    /\ rows' = <<>>
    /\ writes' = Append(writes, Write("delete", 0, TRUE))
    /\ pc' = "update"
    /\ lastCall' = NoCall
    /\ UNCHANGED <<splitVars, cutVars, procs, fileExists, fileMeta, counter, inv, fileType, parsersRun,
                   meta, sections, fileId, secIdx, attempts, embeddingsTokenCount,
                   errors, embeddingsData, dataIdx, result>>

\* line 210, then the fileId test of line 215 and the loop header
UpdateFile ==
    /\ pc = "update"
    /\ fileMeta' = meta
    /\ writes' = Append(writes, Write("update", 0, TRUE))
    /\ pc' = LoopPc(1)
    /\ lastCall' = NoCall
    /\ UNCHANGED <<splitVars, cutVars, procs, fileExists, rows, counter, inv, fileType, parsersRun,
                   meta, sections, fileId, secIdx, attempts, embeddingsTokenCount,
                   errors, embeddingsData, dataIdx, result>>

\* line 212, createFile returns the id of the new row
CreateFileOk ==
    /\ pc = "create"
    /\ fileExists' = TRUE
    /\ fileMeta' = meta
    /\ fileId' = FileId
    /\ writes' = Append(writes, Write("create", 0, TRUE))
    /\ pc' = LoopPc(1)
    /\ lastCall' = NoCall
    /\ UNCHANGED <<splitVars, cutVars, procs, rows, counter, inv, fileType, parsersRun, meta, sections,
                   secIdx, attempts, embeddingsTokenCount, errors, embeddingsData,
                   dataIdx, result>>

\* mutant: the test of fileId (lines 215-219) is missing
CreateFileFailsContinues ==
    /\ pc = "create"
    /\ fileId' = Null
    /\ writes' = Append(writes, Write("create", 0, FALSE))
    /\ pc' = LoopPc(1)
    /\ lastCall' = NoCall
    /\ UNCHANGED <<splitVars, cutVars, procs, storeVars, inv, fileType, parsersRun, meta, sections,
                   secIdx, attempts, embeddingsTokenCount, errors, embeddingsData,
                   dataIdx, result>>

\* line 212 with no id returned, then lines 215-219
CreateFileFails ==
    /\ pc = "create"
    /\ fileId' = Null
    /\ writes' = Append(writes, Write("create", 0, FALSE))
    /\ result' = Returned(<<CreateError>>)
    /\ pc' = "done"
    /\ lastCall' = NoCall
    /\ UNCHANGED <<splitVars, cutVars, procs, storeVars, inv, fileType, parsersRun, meta, sections,
                   secIdx, attempts, embeddingsTokenCount, errors, embeddingsData,
                   dataIdx>>

\* lines 229-234: the section is too short, continue
SkipSection ==
    /\ pc = "loop"
    /\ ~Qualifies(sections[secIdx])
    /\ secIdx' = secIdx + 1
    /\ pc' = LoopPc(secIdx + 1)
    /\ lastCall' = NoCall
    /\ UNCHANGED <<splitVars, cutVars, procs, storeVars, inv, fileType, parsersRun, meta, sections,
                   fileId, attempts, embeddingsTokenCount, errors, embeddingsData,
                   dataIdx, result, writes>>

\* mutant: the record is stored as soon as it is embedded
CreateEmbeddingResolvesStoresRow(tokens) ==
    /\ pc = "loop"
    /\ Qualifies(sections[secIdx])
    /\ attempts < NumOfAttempts
    /\ lastCall' = Call(secIdx, TRUE, attempts + 1)
    /\ embeddingsTokenCount' = embeddingsTokenCount + tokens
    /\ embeddingsData' = Append(embeddingsData, Record(Input(sections[secIdx]), tokens))
    /\ rows' = Append(rows, Record(Input(sections[secIdx]), tokens))
    /\ writes' = Append(writes, Write("insertOne", secIdx, TRUE))
    /\ attempts' = 0
    /\ secIdx' = secIdx + 1
    /\ pc' = LoopPc(secIdx + 1)
    /\ UNCHANGED <<splitVars, cutVars, procs, fileExists, fileMeta, counter, inv, fileType, parsersRun,
                   meta, sections, fileId, errors, dataIdx, result>>

\* lines 239-253: a call of createEmbedding resolves with usage: backOff
\* resolves, the tokens are added and the record is pushed
CreateEmbeddingResolves(tokens) ==
    /\ pc = "loop"
    /\ Qualifies(sections[secIdx])
    /\ attempts < NumOfAttempts
    /\ lastCall' = Call(secIdx, TRUE, attempts + 1)
    /\ embeddingsTokenCount' = embeddingsTokenCount + tokens
    /\ embeddingsData' = Append(embeddingsData, Record(Input(sections[secIdx]), tokens))
    /\ attempts' = 0
    /\ secIdx' = secIdx + 1
    /\ pc' = LoopPc(secIdx + 1)
    /\ UNCHANGED <<splitVars, cutVars, procs, storeVars, inv, fileType, parsersRun, meta, sections,
                   fileId, errors, dataIdx, result, writes>>

\* lines 239-260: a call of createEmbedding resolves with a response that has
\* no usage: line 247 adds 0 (usage?.total_tokens ?? 0), line 252 reads
\* usage.total_tokens and throws, the catch block records the error
CreateEmbeddingResolvesNoUsage ==
    /\ pc = "loop"
    /\ Qualifies(sections[secIdx])
    /\ attempts < NumOfAttempts
    /\ lastCall' = Call(secIdx, TRUE, attempts + 1)
    /\ embeddingsTokenCount' = embeddingsTokenCount + 0
    /\ errors' = Append(errors, EmbedError(Input(sections[secIdx]), "TypeError"))
    /\ attempts' = 0
    /\ secIdx' = secIdx + 1
    /\ pc' = LoopPc(secIdx + 1)
    /\ UNCHANGED <<splitVars, cutVars, procs, storeVars, inv, fileType, parsersRun, meta, sections,
                   fileId, embeddingsData, dataIdx, result, writes>>

\* mutant: the error of backOff is not caught per section and ends the loop
CreateEmbeddingRejectsAborts ==
    /\ pc = "loop"
    /\ Qualifies(sections[secIdx])
    /\ attempts < NumOfAttempts
    /\ lastCall' = Call(secIdx, FALSE, attempts + 1)
    /\ IF attempts + 1 < NumOfAttempts
       THEN /\ attempts' = attempts + 1
            /\ UNCHANGED <<errors, secIdx, pc>>
       ELSE /\ attempts' = 0
            /\ errors' = Append(errors, EmbedError(Input(sections[secIdx]), "rejected"))
            /\ secIdx' = secIdx
            /\ pc' = "insert"
    /\ UNCHANGED <<splitVars, cutVars, procs, storeVars, inv, fileType, parsersRun, meta, sections,
                   fileId, embeddingsTokenCount, embeddingsData, dataIdx, result,
                   writes>>

\* lines 239-260: a call of createEmbedding rejects: backOff retries until
\* numOfAttempts attempts were made, then rejects and the catch block
\* records the error
CreateEmbeddingRejects ==
    /\ pc = "loop"
    /\ Qualifies(sections[secIdx])
    /\ attempts < NumOfAttempts
    /\ lastCall' = Call(secIdx, FALSE, attempts + 1)
    /\ IF attempts + 1 < NumOfAttempts
       THEN /\ attempts' = attempts + 1
            /\ UNCHANGED <<errors, secIdx, pc>>
       ELSE /\ attempts' = 0
            /\ errors' = Append(errors, EmbedError(Input(sections[secIdx]), "rejected"))
            /\ secIdx' = secIdx + 1
            /\ pc' = LoopPc(secIdx + 1)
    /\ UNCHANGED <<splitVars, cutVars, procs, storeVars, inv, fileType, parsersRun, meta, sections,
                   fileId, embeddingsTokenCount, embeddingsData, dataIdx, result,
                   writes>>

\* lines 264-266, no error
BulkInsertOk ==
    /\ pc = "insert"
    /\ rows' = rows \o embeddingsData
    /\ writes' = Append(writes, Write("insert", 0, TRUE))
    /\ pc' = "incrby"
    /\ lastCall' = NoCall
    /\ UNCHANGED <<splitVars, cutVars, procs, fileExists, fileMeta, counter, inv, fileType, parsersRun,
                   meta, sections, fileId, secIdx, attempts, embeddingsTokenCount,
                   errors, embeddingsData, dataIdx, result>>

\* mutant: a failed bulk insert ends the invocation
BulkInsertFailsReturns ==
    /\ pc = "insert"
    /\ errors' = Append(errors, StoreError)
    /\ writes' = Append(writes, Write("insert", 0, FALSE))
    /\ dataIdx' = 1
    /\ result' = Returned(errors')
    /\ pc' = "done"
    /\ lastCall' = NoCall
    /\ UNCHANGED <<splitVars, cutVars, procs, storeVars, inv, fileType, parsersRun, meta, sections,
                   fileId, secIdx, attempts, embeddingsTokenCount, embeddingsData>>

\* mutant: the fallback starts at the second record
BulkInsertFailsSkipsFirst ==
    /\ pc = "insert"
    /\ errors' = Append(errors, StoreError)
    /\ writes' = Append(writes, Write("insert", 0, FALSE))
    /\ dataIdx' = 2
    /\ pc' = IF Len(embeddingsData) < 2 THEN "incrby" ELSE "fallback"
    /\ lastCall' = NoCall
    /\ UNCHANGED <<splitVars, cutVars, procs, storeVars, inv, fileType, parsersRun, meta, sections,
                   fileId, secIdx, attempts, embeddingsTokenCount, embeddingsData,
                   result>>

\* lines 264-274: the insert returns an error, nothing is stored
BulkInsertFails ==
    /\ pc = "insert"
    /\ errors' = Append(errors, StoreError)
    /\ writes' = Append(writes, Write("insert", 0, FALSE))
    /\ dataIdx' = 1
    /\ pc' = IF embeddingsData = <<>> THEN "incrby" ELSE "fallback"
    /\ lastCall' = NoCall
    /\ UNCHANGED <<splitVars, cutVars, procs, storeVars, inv, fileType, parsersRun, meta, sections,
                   fileId, secIdx, attempts, embeddingsTokenCount, embeddingsData,
                   result>>

\* mutant: a single insert that fails is reported and ends the fallback
SingleInsertStopsOnFailure(ok) ==
    /\ pc = "fallback"
    /\ rows' = IF ok THEN Append(rows, embeddingsData[dataIdx]) ELSE rows
    /\ writes' = Append(writes, Write("insertOne", dataIdx, ok))
    /\ dataIdx' = dataIdx + 1
    /\ errors' = IF ok THEN errors ELSE Append(errors, StoreError)
    /\ pc' = IF ~ok \/ dataIdx + 1 > Len(embeddingsData) THEN "incrby" ELSE "fallback"
    /\ lastCall' = NoCall
    /\ UNCHANGED <<splitVars, cutVars, procs, fileExists, fileMeta, counter, inv, fileType, parsersRun,
                   meta, sections, fileId, secIdx, attempts, embeddingsTokenCount,
                   embeddingsData, result>>

\* lines 274-276: one record of the fallback; what insert returns is not read
SingleInsert(ok) ==
    /\ pc = "fallback"
    /\ rows' = IF ok THEN Append(rows, embeddingsData[dataIdx]) ELSE rows
    /\ writes' = Append(writes, Write("insertOne", dataIdx, ok))
    /\ dataIdx' = dataIdx + 1
    /\ pc' = IF dataIdx + 1 > Len(embeddingsData) THEN "incrby" ELSE "fallback"
    /\ lastCall' = NoCall
    /\ UNCHANGED <<splitVars, cutVars, procs, fileExists, fileMeta, counter, inv, fileType, parsersRun,
                   meta, sections, fileId, secIdx, attempts, embeddingsTokenCount,
                   errors, embeddingsData, result>>

\* lines 279-284
Incrby ==
    /\ pc = "incrby"
    /\ counter' = counter + embeddingsTokenCount
    /\ writes' = Append(writes, Write("incrby", 0, TRUE))
    /\ result' = Returned(errors)
    /\ pc' = "done"
    /\ lastCall' = NoCall
    /\ UNCHANGED <<splitVars, cutVars, procs, fileExists, fileMeta, rows, inv, fileType, parsersRun,
                   meta, sections, fileId, secIdx, attempts, embeddingsTokenCount,
                   errors, embeddingsData, dataIdx>>

Next ==
    \/ \E f \in FileInputs, secs \in SectionLists :
           Invoke(f.ft, f.mdxThrows, f.mdocThrows, f.htmlThrows, secs)
    \/ GetFileAtPath
    \/ DeleteSections
    \/ UpdateFile
    \/ CreateFileOk
    \/ CreateFileFails
    \/ SkipSection
    \/ \E tokens \in TokenReports : CreateEmbeddingResolves(tokens)
    \/ CreateEmbeddingResolvesNoUsage
    \/ CreateEmbeddingRejects
    \/ BulkInsertOk
    \/ BulkInsertFails
    \/ \E ok \in BOOLEAN : SingleInsert(ok)
    \/ Incrby

\* sequential invocations of generateFileEmbeddings for one project and path
Spec == Init /\ [][Next]_vars

----------------------------------------------------------------------------
(* splitTreeBy applied to every tree of the bounds *)

InitSplit ==
    /\ SplitInit
    /\ CutIdle
    /\ StoreInit
    /\ InvInit
    /\ procs = <<>>

NextSplit == SplitStep /\ UNCHANGED <<cutVars, storeVars, invVars, procs>>

SpecSplit == InitSplit /\ [][NextSplit]_vars

----------------------------------------------------------------------------
(* splitWithinTokenCutoff applied to every string of the bounds *)

InitCutoff ==
    /\ tree = <<>> /\ trees = <<>> /\ nodeIdx = 0
    /\ CutInit
    /\ StoreInit
    /\ InvInit
    /\ procs = <<>>

NextCutoff ==
    \/ CutoffWhole /\ UNCHANGED <<splitVars, storeVars, invVars, procs>>
    \/ CutoffLines /\ UNCHANGED <<splitVars, storeVars, invVars, procs>>

SpecCutoff == InitCutoff /\ [][NextCutoff]_vars

----------------------------------------------------------------------------
(* Concurrent invocations of generateFileEmbeddings for one project.  Each
   step is the code between two awaits of one invocation.  The files were
   ingested before, so getFileAtPath finds them.  The attempts of one
   backOff touch nothing that is shared and are one step here. *)

Procs == {1, 2}

OtherPath == "docs/b.md"
Paths == {Path, OtherPath}

\* id of the row of `files` for a path
FileIdOf(path) == IF path = Path THEN FileId ELSE "file2"

\* the sections processFile gives invocation p
ConcSections(p) == [k \in 1..MaxConcSections |-> PlainSection]

\* the locals of an invocation for the file at path, before line 202
ProcStart(path) ==
    [path |-> path, pc |-> "getFile", fileId |-> Null, secIdx |-> 1,
     embeddingsTokenCount |-> 0, errors |-> <<>>, embeddingsData |-> <<>>,
     dataIdx |-> 1]

\* the row an earlier invocation left in file_sections for the file at path
PriorRow(path) ==
    [file_id |-> FileIdOf(path), content |-> Input(PlainSection),
     token_count |-> 0, inv |-> 0]

ConcLoopPc(p, i) == IF i > Len(ConcSections(p)) THEN "insert" ELSE "loop"

ConcInit ==
    /\ tree = <<>> /\ trees = <<>> /\ nodeIdx = 0
    /\ CutIdle
    /\ InvInit
    /\ fileExists = TRUE
    /\ fileMeta = [path \in Paths |-> NoMeta]
    /\ rows = <<PriorRow(Path), PriorRow(OtherPath)>>
    /\ counter = 0
    /\ \E path \in Paths : procs = [p \in Procs |-> ProcStart(IF p = 1 THEN Path ELSE path)]

ConcFrame == UNCHANGED <<splitVars, cutVars, invVars, fileExists>>

\* line 202
ConcGetFileAtPath(p) ==
    /\ procs[p].pc = "getFile"
    /\ procs' = [procs EXCEPT ![p].fileId = FileIdOf(procs[p].path), ![p].pc = "delete"]
    /\ UNCHANGED <<fileMeta, rows, counter>>
    /\ ConcFrame

\* lines 206-209: delete from file_sections where file_id = fileId
ConcDeleteSections(p) ==
    /\ procs[p].pc = "delete"
    /\ rows' = SelectSeq(rows, LAMBDA r : r.file_id # procs[p].fileId)
    /\ procs' = [procs EXCEPT ![p].pc = "update"]
    /\ UNCHANGED <<fileMeta, counter>>
    /\ ConcFrame

\* line 210
ConcUpdateFile(p) ==
    /\ procs[p].pc = "update"
    /\ fileMeta' = [fileMeta EXCEPT ![procs[p].path] = Meta(p)]
    /\ procs' = [procs EXCEPT ![p].pc = ConcLoopPc(p, 1)]
    /\ UNCHANGED <<rows, counter>>
    /\ ConcFrame

\* lines 236-253: backOff resolves with a response that reports tokens
ConcEmbeddingResolves(p, tokens) ==
    /\ procs[p].pc = "loop"
    /\ LET input == Input(ConcSections(p)[procs[p].secIdx])
           data == [file_id |-> procs[p].fileId, content |-> input,
                    token_count |-> tokens, inv |-> p]
       IN procs' = [procs EXCEPT
                        ![p].embeddingsTokenCount = @ + tokens,
                        ![p].embeddingsData = Append(@, data),
                        ![p].secIdx = @ + 1,
                        ![p].pc = ConcLoopPc(p, procs[p].secIdx + 1)]
    /\ UNCHANGED <<fileMeta, rows, counter>>
    /\ ConcFrame

\* lines 254-261: backOff rejects after its last attempt
ConcEmbeddingRejects(p) ==
    /\ procs[p].pc = "loop"
    /\ LET input == Input(ConcSections(p)[procs[p].secIdx])
           err == [EmbedError(input, "rejected") EXCEPT !.path = procs[p].path]
       IN procs' = [procs EXCEPT
                        ![p].errors = Append(@, err),
                        ![p].secIdx = @ + 1,
                        ![p].pc = ConcLoopPc(p, procs[p].secIdx + 1)]
    /\ UNCHANGED <<fileMeta, rows, counter>>
    /\ ConcFrame

\* lines 264-267: the insert of all records goes through
ConcBulkInsertOk(p) ==
    /\ procs[p].pc = "insert"
    /\ rows' = rows \o procs[p].embeddingsData
    /\ procs' = [procs EXCEPT ![p].pc = "incrby"]
    /\ UNCHANGED <<fileMeta, counter>>
    /\ ConcFrame

\* lines 264-274: the insert returns an error, nothing is stored
ConcBulkInsertFails(p) ==
    /\ procs[p].pc = "insert"
    /\ procs' = [procs EXCEPT
                    ![p].errors = Append(@, [StoreError EXCEPT !.path = procs[p].path]),
                    ![p].dataIdx = 1,
                    ![p].pc = IF procs[p].embeddingsData = <<>> THEN "incrby"
                              ELSE "fallback"]
    /\ UNCHANGED <<fileMeta, rows, counter>>
    /\ ConcFrame

\* lines 274-276
ConcSingleInsert(p, ok) ==
    /\ procs[p].pc = "fallback"
    /\ rows' = IF ok THEN Append(rows, procs[p].embeddingsData[procs[p].dataIdx])
               ELSE rows
    /\ procs' = [procs EXCEPT
                    ![p].dataIdx = @ + 1,
                    ![p].pc = IF procs[p].dataIdx + 1 > Len(procs[p].embeddingsData)
                              THEN "incrby" ELSE "fallback"]
    /\ UNCHANGED <<fileMeta, counter>>
    /\ ConcFrame

\* mutant: the counter is set to the tokens of the invocation
ConcIncrbySets(p) ==
    /\ procs[p].pc = "incrby"
    /\ counter' = procs[p].embeddingsTokenCount
    /\ procs' = [procs EXCEPT ![p].pc = "done"]
    /\ UNCHANGED <<fileMeta, rows>>
    /\ ConcFrame

\* lines 279-284: one INCRBY command of redis
ConcIncrby(p) ==
    /\ procs[p].pc = "incrby"
    /\ counter' = counter + procs[p].embeddingsTokenCount
    /\ procs' = [procs EXCEPT ![p].pc = "done"]
    /\ UNCHANGED <<fileMeta, rows>>
    /\ ConcFrame

NextConc ==
    \E p \in Procs :
        \/ ConcGetFileAtPath(p)
        \/ ConcDeleteSections(p)
        \/ ConcUpdateFile(p)
        \/ \E tokens \in TokenReports : ConcEmbeddingResolves(p, tokens)
        \/ ConcEmbeddingRejects(p)
        \/ ConcBulkInsertOk(p)
        \/ ConcBulkInsertFails(p)
        \/ \E ok \in BOOLEAN : ConcSingleInsert(p, ok)
        \/ ConcIncrby(p)

SpecConc == ConcInit /\ [][NextConc]_vars

----------------------------------------------------------------------------
(* Properties *)

\* the invocation got its file record and is at or past the for loop
PastResolution ==
    \/ pc \in {"loop", "insert", "fallback", "incrby"}
    \/ pc = "done" /\ fileId # Null

\* the for loop over sections has ended
LoopEnded ==
    \/ pc \in {"insert", "fallback", "incrby"}
    \/ pc = "done" /\ fileId # Null

CountKind(errs, kind) == Cardinality({k \in 1..Len(errs) : errs[k].kind = kind})

CountOp(ws, op) == Cardinality({k \in 1..Len(ws) : ws[k].op = op})

\* sections before index i that pass the length test of line 232
QualifyingBefore(i) == Cardinality({k \in 1..(i - 1) : Qualifies(sections[k])})

TokenSum(data) == SumSeq([k \in 1..Len(data) |-> data[k].token_count])

\* C1: a section whose embedding call fails on all attempts adds exactly one
\* error entry with the file's path and the loop goes on with the next
\* section; at every point of the loop, and at its end for all sections,
\* records + per-section error entries = sections of at least the minimum
\* content length that the loop has passed.
C1_FailureIsolated ==
    /\ PastResolution =>
        /\ Len(embeddingsData) + CountKind(errors, "embed") = QualifyingBefore(secIdx)
        /\ \A k \in 1..Len(errors) : errors[k].path = Path
    /\ LoopEnded => secIdx = Len(sections) + 1
    /\ (lastCall.n = NumOfAttempts /\ ~lastCall.ok) =>
        /\ errors # <<>>
        /\ errors[Len(errors)] = EmbedError(Input(sections[lastCall.idx]), "rejected")
        /\ secIdx = lastCall.idx + 1
        /\ pc = LoopPc(secIdx)

\* witness of C1: two sections long enough, the first failed on all
\* attempts, the one after it was embedded
C1_Witness ==
    /\ pc = "done"
    /\ Len(sections) = 2
    /\ \A k \in 1..2 : Qualifies(sections[k])
    /\ Len(errors) = 1
    /\ errors[1] = EmbedError(Input(sections[1]), "rejected")
    /\ Len(embeddingsData) = 1
    /\ embeddingsData[1].content = Input(sections[2])

\* a step that records a per-section embedding error
RecordsEmbedError ==
    /\ Len(errors') = Len(errors) + 1
    /\ errors'[Len(errors')].kind = "embed"

\* C2 (as claimed): at most 10 provider calls per section, no call for a
\* section after one of its calls succeeded, and a section is recorded as
\* failed only by its 10th failed call.
C2_RetryAsClaimed ==
    [][ /\ lastCall'.n <= NumOfAttempts
        /\ (lastCall.ok /\ lastCall'.idx # 0) => lastCall'.idx > lastCall.idx
        /\ RecordsEmbedError => (lastCall'.n = NumOfAttempts /\ ~lastCall'.ok)
      ]_vars

\* the parts of C2 the code keeps: the cap of 10 calls and no call after a
\* call that resolved
C2_CallsBounded ==
    [][ /\ lastCall'.n <= NumOfAttempts
        /\ (lastCall.ok /\ lastCall'.idx # 0) => lastCall'.idx > lastCall.idx
        /\ (RecordsEmbedError /\ ~lastCall'.ok) => lastCall'.n = NumOfAttempts
      ]_vars

\* reached: a section recorded as failed by a call that resolved
C2_Witness ==
    /\ lastCall.ok
    /\ errors # <<>>
    /\ errors[Len(errors)] = EmbedError(Input(sections[lastCall.idx]), "TypeError")

\* C3: when the file record is neither found nor created the invocation
\* returns exactly one error entry and has done nothing else: no provider
\* call, no insert, no increment of the counter, no row stored.
C3_NoFileNoWork ==
    (pc = "done" /\ fileId = Null) =>
        /\ result = Returned(<<CreateError>>)
        /\ writes = <<Write("create", 0, FALSE)>>
        /\ lastCall = NoCall /\ secIdx = 1 /\ attempts = 0
        /\ embeddingsData = <<>> /\ embeddingsTokenCount = 0 /\ errors = <<>>
        /\ rows = <<>> /\ ~fileExists

\* witness of C3: the file was not created although sections were to embed
C3_Witness ==
    /\ pc = "done" /\ fileId = Null
    /\ \E k \in 1..Len(sections) : Qualifies(sections[k])

\* the insertion step has finished: the bulk insert succeeded, or it failed
\* and every record went through the fallback
InsertionFinished(ws) ==
    \/ CountOp(ws, "insert") = 1 /\ ws[Len(ws)] = Write("insert", 0, TRUE)
    \/ /\ Write("insert", 0, FALSE) \in {ws[k] : k \in 1..Len(ws)}
       /\ CountOp(ws, "insertOne") = Len(embeddingsData)

\* C4: an invocation that has its file record increments the counter
\* exactly once, as its last step, after the insertion step has finished,
\* by the sum of the tokens reported for the records it made; no other
\* step changes the counter.
C4_CounterOnce ==
    [][ /\ (pc # "done" /\ pc' = "done" /\ fileId' # Null) =>
            /\ counter' = counter + TokenSum(embeddingsData)
            /\ TokenSum(embeddingsData) = embeddingsTokenCount
            /\ CountOp(writes, "incrby") = 0
            /\ writes' = Append(writes, Write("incrby", 0, TRUE))
            /\ InsertionFinished(writes)
        /\ ~(pc # "done" /\ pc' = "done" /\ fileId' # Null) =>
            /\ counter' = counter
            /\ CountOp(writes', "incrby") <= CountOp(writes, "incrby")
      ]_vars

\* witness of C4: a section failed for good, the bulk insert failed, and
\* the counter took the tokens of the sections that were embedded
C4_Witness ==
    /\ pc = "done"
    /\ CountKind(errors, "embed") >= 1
    /\ CountKind(errors, "store") = 1
    /\ embeddingsTokenCount > 0
    /\ counter = embeddingsTokenCount

\* the records of data whose single insert the store carried out
RECURSIVE Inserted(_, _)
Inserted(ws, data) ==
    IF ws = <<>> THEN <<>>
    ELSE IF Head(ws).op = "insertOne" /\ Head(ws).ok
         THEN <<data[Head(ws).idx]>> \o Inserted(Tail(ws), data)
         ELSE Inserted(Tail(ws), data)

\* the indices of the single inserts of ws, in order
RECURSIVE SingleIdx(_)
SingleIdx(ws) ==
    IF ws = <<>> THEN <<>>
    ELSE IF Head(ws).op = "insertOne"
         THEN <<Head(ws).idx>> \o SingleIdx(Tail(ws))
         ELSE SingleIdx(Tail(ws))

BulkFailed == Write("insert", 0, FALSE) \in {writes[k] : k \in 1..Len(writes)}

\* C5: after a failed bulk insert every record was submitted on its own
\* exactly once, in record order, the rows stored are the records whose
\* single insert went through, and the error list holds exactly one entry
\* for the bulk failure, after the per-section entries.
C5_FallbackAll ==
    (pc = "done" /\ BulkFailed) =>
        /\ SingleIdx(writes) = [k \in 1..Len(embeddingsData) |-> k]
        /\ rows = Inserted(writes, embeddingsData)
        /\ CountKind(errors, "store") = 1
        /\ errors[Len(errors)] = StoreError
        /\ Len(errors) = CountKind(errors, "embed") + 1
        /\ result = Returned(errors)

\* witness of C5: the bulk insert of two records failed and both went
\* through the fallback, in order
C5_Witness ==
    /\ pc = "done" /\ BulkFailed
    /\ Len(embeddingsData) = 2
    /\ embeddingsData[1] # embeddingsData[2]
    /\ rows = embeddingsData
    /\ errors = <<StoreError>>

\* every record of the invocation was stored: by the bulk insert, or one
\* by one after the bulk insert failed
AllStored ==
    \/ Write("insert", 0, TRUE) \in {writes[k] : k \in 1..Len(writes)}
    \/ /\ BulkFailed
       /\ \A k \in 1..Len(writes) : writes[k].op = "insertOne" => writes[k].ok

FoundPath ==
    /\ Len(writes) >= 2
    /\ SubSeq(writes, 1, 2) = <<Write("delete", 0, TRUE), Write("update", 0, TRUE)>>
    /\ CountOp(writes, "create") = 0
    /\ CountOp(writes, "delete") = 1

CreatedPath ==
    /\ Len(writes) >= 1
    /\ writes[1] = Write("create", 0, TRUE)
    /\ CountOp(writes, "delete") = 0
    /\ CountOp(writes, "update") = 0

\* C6: when the file record exists its section rows are all deleted and
\* its meta is updated, and no file is created; when it does not exist a
\* file is created and nothing is deleted.  So after an invocation whose
\* records were all stored, the rows of the file are exactly the records
\* of that invocation, whatever the invocations before it stored.
C6_Replacement ==
    /\ [](/\ pc \in {"delete", "update"} => (fileExists /\ fileId = FileId)
          /\ pc = "create" => (~fileExists /\ rows = <<>> /\ writes = <<>>)
          /\ PastResolution =>
                /\ fileExists /\ fileMeta = meta
                /\ FoundPath \/ CreatedPath
          /\ pc \in {"loop", "insert"} => rows = <<>>
          /\ (pc = "done" /\ fileId # Null /\ AllStored) =>
                /\ rows = embeddingsData
                /\ \A k \in 1..Len(rows) : rows[k].inv = inv)
    /\ [][ /\ pc = "getFile" => pc' = (IF fileExists THEN "delete" ELSE "create")
           /\ writes' = Append(writes, Write("delete", 0, TRUE)) =>
                (fileExists /\ fileExists' /\ rows' = <<>>)
           /\ writes' = Append(writes, Write("update", 0, TRUE)) =>
                (fileExists /\ fileExists' /\ fileMeta' = meta)
           /\ writes' = Append(writes, Write("create", 0, TRUE)) =>
                (~fileExists /\ fileExists' /\ fileMeta' = meta /\ rows' = rows)
         ]_vars

\* witness of C6: a later invocation found the file, and the rows of the
\* file are its records although an earlier invocation had embedded sections
C6_Witness ==
    /\ pc = "done" /\ inv >= 2
    /\ FoundPath
    /\ rows = embeddingsData /\ rows # <<>>
    /\ counter > embeddingsTokenCount

\* C7 (as claimed): every store write of an invocation comes after its last
\* provider call: when a provider call is made nothing was written yet.
C7_WritesAfterCalls == lastCall # NoCall => writes = <<>>

\* C7 (amended): the prior rows are deleted and the file record is updated
\* or created before the first provider call; from there to the last
\* provider call nothing is written and no section row is stored; the
\* inserts and the increment of the counter come after the last call.
C7_OnlyResolutionBeforeCalls ==
    (pc = "loop" \/ lastCall # NoCall) =>
        /\ \/ writes = <<Write("delete", 0, TRUE), Write("update", 0, TRUE)>>
           \/ writes = <<Write("create", 0, TRUE)>>
        /\ rows = <<>>

\* witness of C7: the second section is embedded after the delete and the
\* update of the file, and nothing else was written
C7_Witness ==
    /\ lastCall.idx >= 2 /\ lastCall.ok
    /\ writes = <<Write("delete", 0, TRUE), Write("update", 0, TRUE)>>

\* processFile went through its parsers and the last one threw
Unparseable == parsersRun # <<>> /\ parsersRun[Len(parsersRun)].threw

\* C8 (as claimed): an unparseable document ends the invocation with a
\* returned list of one error entry for the file.
C8_ReturnsOneError ==
    Unparseable =>
        /\ result.kind = "returned"
        /\ Len(result.errors) = 1
        /\ result.errors[1].path = Path

\* C8 (amended): an unparseable document ends the invocation with the
\* fault of the parser raised to the caller, no error list is returned,
\* and nothing was done: no store operation, no provider call, no record,
\* no increment of the counter.
C8_FaultAndNoWork ==
    /\ [](Unparseable =>
            /\ pc = "thrown" /\ result = Fault
            /\ writes = <<>> /\ lastCall = NoCall
            /\ embeddingsData = <<>> /\ embeddingsTokenCount = 0 /\ errors = <<>>)
    /\ [][Unparseable' => UNCHANGED <<fileExists, fileMeta, rows, counter>>]_vars

\* witness of C8: the flow-markup parse and its fallback both threw, with
\* rows of an earlier invocation in the store
C8_Witness ==
    /\ Unparseable
    /\ Len(parsersRun) = 2
    /\ rows # <<>> /\ counter > 0

\* C9: the trees of splitTreeBy partition the children: concatenated in
\* output order they give the children reduced so far, in document order
\* (so each child is in exactly one tree and each tree is a contiguous
\* run), and no tree is empty.
C9_Partition ==
    /\ Flatten(trees) = SubSeq(tree, 1, nodeIdx)
    /\ \A s \in 1..Len(trees) : trees[s] # <<>>
    /\ SplitDone => Flatten(trees) = tree

\* witness of C9: a tree split into several sections, one of several nodes
C9_Witness ==
    /\ SplitDone
    /\ Len(tree) >= 4
    /\ Len(trees) >= 2
    /\ \E s \in 1..Len(trees) : Len(trees[s]) >= 2

Headings(t) == {i \in 1..Len(t) : IsHeading(t[i])}

\* the tree starts with a node that is no heading
LeadingContent(t) == t # <<>> /\ ~IsHeading(t[1])

\* C10: with k headings among the children there are k sections when no
\* content comes before the first heading and k + 1 when some does; a
\* heading is always the first node of its section; of two consecutive
\* headings the first is a section of its own.
C10_SectionCount ==
    SplitDone =>
        /\ Len(trees) = Cardinality(Headings(tree))
                          + (IF LeadingContent(tree) THEN 1 ELSE 0)
        /\ \A s \in 1..Len(trees) : \A j \in 1..Len(trees[s]) :
                IsHeading(trees[s][j]) => j = 1
        /\ \A i \in 1..(Len(tree) - 1) :
                (IsHeading(tree[i]) /\ IsHeading(tree[i + 1])) =>
                    \E s \in 1..Len(trees) : trees[s] = <<tree[i]>>

\* witness of C10: content before the first heading and two consecutive
\* headings
C10_Witness ==
    /\ SplitDone
    /\ LeadingContent(tree)
    /\ \E i \in 1..(Len(tree) - 1) : IsHeading(tree[i]) /\ IsHeading(tree[i + 1])
    /\ Len(trees) = Cardinality(Headings(tree)) + 1

\* the lines of the pieces, in piece order
PieceLines(pieces) == Flatten([k \in 1..Len(pieces) |-> SplitLines(pieces[k])])

\* a piece whose buffer was started by a flush and that took a further line
FlushStarted(piece) == piece # <<>> /\ Head(piece) # NL /\ NL \in {piece[i] : i \in 1..Len(piece)}

\* C11 (as claimed): every piece splitWithinTokenCutoff returns has
\* estimated tokens, its length / 4, below CONTEXT_TOKENS_CUTOFF * 0.8.
C11_PiecesUnderBudget ==
    CutDone => \A k \in 1..Len(cutPieces) :
                    5 * Len(cutPieces[k]) < 16 * CONTEXT_TOKENS_CUTOFF

\* reached: a section of one line at or over the budget is returned as a
\* piece of its own, still at or over the budget
C11_Witness ==
    /\ cutPath = "lines"
    /\ NL \notin {cutSection[i] : i \in 1..Len(cutSection)}
    /\ cutPieces = <<<<>>, cutSection>>

\* reached: a buffer started by a flush took a further line and is at or
\* over the budget
C11_FlushStartedOver ==
    /\ cutPath = "lines"
    /\ \E k \in 2..Len(cutPieces) :
            /\ FlushStarted(cutPieces[k])
            /\ ~(5 * Len(cutPieces[k]) < 16 * CONTEXT_TOKENS_CUTOFF)

\* C12 (as claimed): the lines of the pieces, concatenated in piece order,
\* are exactly the lines of the section, in order.
C12_LinesPreserved == CutDone => PieceLines(cutPieces) = SplitLines(cutSection)

\* C12 (amended): the lines of the pieces, in piece order, are the lines
\* of the section in order, none dropped or duplicated; on the
\* line-splitting path one empty line comes before them, and no other
\* line is added.
C12_LinesKept ==
    /\ cutPath = "whole" => PieceLines(cutPieces) = SplitLines(cutSection)
    /\ cutPath = "lines" => PieceLines(cutPieces) = <<<<>>>> \o SplitLines(cutSection)

\* witness of C12: the first piece of a section of two lines starts with
\* a newline that the section does not start with
C12_Witness ==
    /\ cutPath = "lines"
    /\ Len(SplitLines(cutSection)) = 2
    /\ cutSection[1] # NL
    /\ Len(cutPieces) = 2
    /\ cutPieces[1] # <<>>
    /\ cutPieces[1][1] = NL

\* C13: a section whose length / 4 is below CONTEXT_TOKENS_CUTOFF * 0.8 is
\* returned as the only piece, unchanged, and the section is split at its
\* newlines only when its length / 4 is at or over that budget.
C13_ShortUnchanged ==
    CutDone =>
        /\ 5 * Len(cutSection) < 16 * CONTEXT_TOKENS_CUTOFF =>
                (cutPieces = <<cutSection>> /\ cutPath = "whole")
        /\ cutPath = "lines" => 5 * Len(cutSection) >= 16 * CONTEXT_TOKENS_CUTOFF

\* witness of C13: a section of several lines under the budget came back
\* whole
C13_Witness ==
    /\ cutPath = "whole"
    /\ Len(SplitLines(cutSection)) >= 2
    /\ \E i \in 1..Len(cutSection) : cutSection[i] # NL
    /\ cutPieces = <<cutSection>>

\* the reference of C17: one step of the scan over the lines; count is
\* 4 * the estimate
RefStep(st, line) ==
    IF 5 * (st.count + Len(line)) < 16 * CONTEXT_TOKENS_CUTOFF
    THEN [pieces |-> st.pieces,
          buffer |-> st.buffer \o <<NL>> \o line,
          count |-> st.count + Len(line)]
    ELSE [pieces |-> Append(st.pieces, st.buffer),
          buffer |-> line,
          count |-> 0]

RECURSIVE RefScan(_, _)
RefScan(lines, k) ==
    IF k = 0
    THEN [pieces |-> <<>>, buffer |-> <<>>, count |-> 0]
    ELSE RefStep(RefScan(lines, k - 1), lines[k])

RefPieces(s) ==
    LET lines == SplitLines(s)
        st == RefScan(lines, Len(lines))
    IN IF st.buffer # <<>> THEN Append(st.pieces, st.buffer) ELSE st.pieces

\* C17: on the line-splitting path the pieces are those of the reference
\* scan: buffer and count start empty and at 0; a line with count +
\* length / 4 under the budget goes to the buffer, after a newline, and
\* adds to the count; any other line flushes the buffer as a piece, starts
\* the new buffer and sets the count to 0; at the end the buffer is
\* flushed when it is not empty.
C17_SameAsReference == cutPath = "lines" => cutPieces = RefPieces(cutSection)

\* witness of C17: a line went to a buffer started
\* by a flush only because the count was set to 0
C17_Witness ==
    /\ cutPath = "lines"
    /\ Len(cutPieces) = 2
    /\ FlushStarted(cutPieces[2])
    /\ LET ls == SplitLines(cutPieces[2])
       IN ~(5 * (Len(ls[1]) + Len(ls[2])) < 16 * CONTEXT_TOKENS_CUTOFF)

\* C14: a section whose length, after its newlines are replaced by
\* spaces, is below MIN_CONTENT_LENGTH is passed over by the loop: no
\* provider call, no record, no error entry, nothing written, and the loop
\* goes on with the next section.
C14_ShortSkipped ==
    [][ (pc = "loop" /\ Len(Input(sections[secIdx])) < MIN_CONTENT_LENGTH) =>
            /\ secIdx' = secIdx + 1
            /\ pc' = (IF secIdx < Len(sections) THEN "loop" ELSE "insert")
            /\ lastCall' = NoCall
            /\ UNCHANGED <<attempts, embeddingsData, embeddingsTokenCount,
                           errors, writes, fileExists, fileMeta, rows, counter>>
      ]_vars

\* witness of C14: a section that holds a newline and is too short was
\* passed over, the section after it was embedded and stored, and no error
\* was recorded
C14_Witness ==
    /\ pc = "done"
    /\ Len(sections) = 2
    /\ Len(sections[1]) < MIN_CONTENT_LENGTH
    /\ NL \in {sections[1][i] : i \in 1..Len(sections[1])}
    /\ Len(embeddingsData) = 1
    /\ embeddingsData[1].content = Input(sections[2])
    /\ rows = embeddingsData
    /\ errors = <<>>

ParsersNamed(run) == {run[k].parser : k \in 1..Len(run)}

\* C15: for a file that is neither mdoc nor html the MDX parse runs first;
\* when it throws the Markdoc parse runs on the same content, and
\* processFile throws only when that throws too; when the MDX parse
\* succeeds no other parser runs.  For an mdoc or html file the MDX parser
\* never runs.
C15_FallbackOrder ==
    parsersRun # <<>> =>
        /\ fileType \notin {"mdoc", "html"} =>
            /\ parsersRun[1].parser = "mdx"
            /\ parsersRun[1].threw =>
                    (Len(parsersRun) = 2 /\ parsersRun[2].parser = "markdoc")
            /\ ~parsersRun[1].threw => (Len(parsersRun) = 1 /\ pc = "getFile")
            /\ pc = "thrown" <=>
                    (Len(parsersRun) = 2 /\ parsersRun[1].threw /\ parsersRun[2].threw)
        /\ fileType = "mdoc" => ParsersNamed(parsersRun) = {"markdoc"}
        /\ fileType = "html" => ParsersNamed(parsersRun) = {"html"}

\* witness of C15: the MDX parse threw, the Markdoc parse of the same
\* content gave the sections, and the invocation goes on
C15_Witness ==
    /\ pc = "getFile"
    /\ fileType = "md"
    /\ parsersRun = <<Ran("mdx", TRUE), Ran("markdoc", FALSE)>>
    /\ sections # <<>>

\* C18 (as claimed): a tree without heading nodes, the tree without any
\* node included, gives exactly one section, which holds the whole tree.
C18_OneSectionAlways ==
    (SplitDone /\ Headings(tree) = {}) => (Len(trees) = 1 /\ trees[1] = tree)

\* C18 (amended): a tree without heading nodes and with at least one node
\* gives exactly one section, which holds the whole tree; the tree without
\* any node gives no section.
C18_OneSectionUnlessEmpty ==
    (SplitDone /\ Headings(tree) = {}) =>
        /\ tree # <<>> => (Len(trees) = 1 /\ trees[1] = tree)
        /\ tree = <<>> => trees = <<>>

\* witness of C18: several nodes, none a heading, in one section
C18_Witness ==
    /\ SplitDone
    /\ Headings(tree) = {}
    /\ Len(tree) >= 2
    /\ trees = <<tree>>

\* C19: in the fallback a single insert, whether it fails or not, adds no
\* error entry and is followed by the single insert of the next record;
\* rows stored before stay stored; the error list returned after a failed
\* bulk insert is the per-section entries followed by the one entry of the
\* bulk failure, whatever the single inserts did.
C19_SingleFailuresSilent ==
    /\ []((pc = "done" /\ BulkFailed) =>
            /\ result = Returned(errors)
            /\ Len(errors) = CountKind(errors, "embed") + 1
            /\ errors[Len(errors)] = StoreError)
    /\ [][ /\ pc = "fallback" =>
                /\ errors' = errors
                /\ dataIdx' = dataIdx + 1
                /\ pc' = (IF dataIdx < Len(embeddingsData) THEN "fallback" ELSE "incrby")
                /\ rows' \in {rows, Append(rows, embeddingsData[dataIdx])}
           /\ pc \in {"fallback", "incrby"} =>
                /\ Len(rows') >= Len(rows)
                /\ SubSeq(rows', 1, Len(rows)) = rows
         ]_vars

\* witness of C19: the single insert of the first record failed, the one
\* of the second record went through, and only the bulk failure is in the
\* error list
C19_Witness ==
    /\ pc = "done" /\ BulkFailed
    /\ Len(embeddingsData) = 2
    /\ Write("insertOne", 1, FALSE) \in {writes[k] : k \in 1..Len(writes)}
    /\ Write("insertOne", 2, TRUE) \in {writes[k] : k \in 1..Len(writes)}
    /\ rows = <<embeddingsData[2]>>
    /\ errors = <<StoreError>>

\* every concurrent invocation has returned
AllDone == \A p \in Procs : procs[p].pc = "done"

\* the tokens of the concurrent invocations that have incremented the counter
DoneTokens ==
    SumSeq([p \in Procs |-> IF procs[p].pc = "done"
                            THEN procs[p].embeddingsTokenCount ELSE 0])

\* C16: under every interleaving of concurrent invocations for one project
\* the counter changes only by the one step of an invocation that adds its
\* token total to the value the counter has at that step, so the counter
\* is its initial value, 0, plus the token totals of the invocations that
\* have made that step: of all of them once all have finished.
C16_NoLostUpdate ==
    /\ [](procs # <<>> => counter = DoneTokens)
    /\ [][ (procs # <<>> /\ counter' # counter) =>
                \E p \in Procs :
                    /\ procs[p].pc = "incrby" /\ procs'[p].pc = "done"
                    /\ counter' = counter + procs[p].embeddingsTokenCount
                    /\ \A q \in Procs \ {p} : procs'[q] = procs[q]
         ]_vars

\* witness of C16: invocations for two documents have finished, each with
\* tokens to count, and the counter holds the tokens of both
C16_Witness ==
    /\ procs # <<>>
    /\ AllDone
    /\ procs[1].path # procs[2].path
    /\ \A p \in Procs : procs[p].embeddingsTokenCount > 0
    /\ counter = procs[1].embeddingsTokenCount + procs[2].embeddingsTokenCount

\* the rows of file_sections of the file with this id
RowsOf(id) == SelectSeq(rows, LAMBDA r : r.file_id = id)

\* two invocations for the same path, no provider call and no insert failed
SamePathAllWent ==
    /\ procs # <<>>
    /\ AllDone
    /\ procs[1].path = procs[2].path
    /\ \A p \in Procs : procs[p].errors = <<>>

\* C20 (as claimed): when two concurrent invocations for the same path
\* have finished, no provider call and no insert having failed, the rows of
\* the file are the records of exactly one of them.
C20_OneInvocationsRows ==
    SamePathAllWent =>
        \E p \in Procs : RowsOf(FileIdOf(Path)) = procs[p].embeddingsData

\* reached: both invocations deleted before either inserted, and the rows
\* of the file are the records of both
C20_Witness ==
    /\ SamePathAllWent
    /\ \A p \in Procs : procs[p].embeddingsData # <<>>
    /\ RowsOf(FileIdOf(Path)) = procs[1].embeddingsData \o procs[2].embeddingsData

====
